---- MODULE Spec2Model ----
(***************************************************************************)
(* Model of router-rs (src/src/main.rs): a Config registry of Namespaces,  *)
(* Links and Interfaces, and the provisioning operations that drive the    *)
(* `ip` command.                                                           *)
(*                                                                         *)
(* Representation of text:                                                 *)
(*  - names and command tokens are strings;                                *)
(*  - an Interface's ip text is the sequence of its "/"-separated pieces   *)
(*    (<<"10.0.0.1","24">> is "10.0.0.1/24"); Str joins them back;         *)
(*  - a Link's subnet text is the sequence of its "/"-separated pieces,    *)
(*    each the sequence of its "."-separated decimal numbers               *)
(*    (<< <<10,0,0,0>>, <<24>> >> is "10.0.0.0/24").                       *)
(* A u32 is kept as two 16-bit limbs [hi, lo].                             *)
(* Option<T>: None is <<>>, Some(x) is <<x>>.                              *)
(*                                                                         *)
(* State: config is the Config registry; call, issued and result are the   *)
(* last operation, the commands it issued (with the system's answer to     *)
(* each) and what it returned; overflow_checks is the build's arithmetic   *)
(* overflow behaviour, None until an overflowing addition first shows it;  *)
(* history and trace are the calls made and the commands issued so far by  *)
(* a main()-style run (SpecMain).                                          *)
(***************************************************************************)
EXTENDS Integers, Sequences, FiniteSets, TLC

VARIABLES config, call, issued, result, overflow_checks, history, trace

vars == <<config, call, issued, result, overflow_checks, history, trace>>

\* ------------------------------------------------------------------ bounds
\* Longest gateway list a Route carries in the model.
MaxGw == 2

\* ------------------------------------------------------------------ inputs
NsNames == {"r1", "r2"}
LinkNames == {"link1"}
IfNames == {"en0"}
Dsts == {"192.168.1.0/24"}
IpTexts == {<<"192.168.0.1", "24">>}
LinkMtu == 3000

Subnets ==
  { << <<10, 0, 0, 0>>, <<24>> >>,
    << <<10, 0, 255, 255>>, <<16>> >>,
    << <<255, 255, 255, 254>>, <<31>> >>,
    << <<10, 0, 0, 0>> >> }

None == <<>>
Some(x) == <<x>>

\* ------------------------------------------------------------------ text
RECURSIVE Str(_)
Str(pieces) ==
  IF Len(pieces) = 0 THEN ""
  ELSE IF Len(pieces) = 1 THEN pieces[1]
  ELSE pieces[1] \o "/" \o Str(Tail(pieces))

\* ip.split("/").collect()
SplitSlash(pieces) == pieces

\* format!("{}_{}", ns.name, self.name)
DeviceName(ns, link) == ns \o "_" \o link

\* ------------------------------------------------------------------ u32 / IPv4
U32FromBeBytes(oct) == [hi |-> oct[1] * 256 + oct[2], lo |-> oct[3] * 256 + oct[4]]

U32ToBeBytes(v) == <<v.hi \div 256, v.hi % 256, v.lo \div 256, v.lo % 256>>

U32AddOverflows(v, k) == v.hi + ((v.lo + k) \div 65536) >= 65536

U32WrappingAdd(v, k) ==
  [hi |-> (v.hi + ((v.lo + k) \div 65536)) % 65536, lo |-> (v.lo + k) % 65536]

Ipv4ToString(oct) ==
  ToString(oct[1]) \o "." \o ToString(oct[2]) \o "." \o ToString(oct[3]) \o "." \o ToString(oct[4])

\* self.subnet.parse::<ipnet::IpNet>() for IPv4 text: "a.b.c.d/p", octets 0..255,
\* p in 0..32; the address is kept as written (addr() is not truncated).
IpNetParses(text) ==
  /\ Len(text) = 2
  /\ Len(text[1]) = 4
  /\ \A i \in 1..4 : text[1][i] \in 0..255
  /\ Len(text[2]) = 1
  /\ text[2][1] \in 0..32

IpNetAddr(text) == text[1]

IpNetPrefixLen(text) == text[2][1]

\* ------------------------------------------------------------------ commands
Status(o, i) == IF o.fail = i THEN o.how ELSE "ok"

ErrOf(status) == IF status = "spawn" THEN "IoError" ELSE "CommandFailure"

\* What the system answers to the commands of one operation: every command
\* succeeds, or the k-th one cannot be run ("spawn") or returns non-success.
NoFailure == [fail |-> 0, how |-> "ok"]

Oracles(n) == {NoFailure} \cup [fail : 1..n, how : {"nonzero", "spawn"}]

MinOf(S) == CHOOSE x \in S : \A y \in S : x <= y

\* Mutant of RunChecked: a failing command does not end the chain.
RunChecked_KeepsGoing(cmds, o, off) ==
  LET bad == {i \in 1..Len(cmds) : Status(o, off + i) # "ok"}
  IN [issued |-> [i \in 1..Len(cmds) |-> [argv |-> cmds[i], status |-> Status(o, off + i)]],
      err |-> IF bad = {} THEN "" ELSE ErrOf(Status(o, off + MinOf(bad)))]

\* A chain of checked commands, each `Command::output()?` followed by
\* `if !output.status.success() { return Err(..) }`: the first command that cannot
\* be run or returns non-success ends the chain.
RunChecked(cmds, o, off) ==
  LET bad == {i \in 1..Len(cmds) : Status(o, off + i) # "ok"}
      k == IF bad = {} THEN Len(cmds) ELSE MinOf(bad)
  IN [issued |-> [i \in 1..k |-> [argv |-> cmds[i], status |-> Status(o, off + i)]],
      err |-> IF bad = {} THEN "" ELSE ErrOf(Status(o, off + k))]

NamespaceCreateCmd(name) == <<"ip", "netns", "add", name>>

EnableRoutingCmd(name) ==
  <<"ip", "netns", "exec", name, "sysctl", "-w", "net.ipv4.ip_forward=1">>

EnableEcmpCmd(name) ==
  <<"ip", "netns", "exec", name, "sysctl", "-w", "net.ipv4.fib_multipath_hash_policy=1">>

VethCreateCmd(name, peer) ==
  <<"ip", "link", "add", name, "type", "veth", "peer", "name", peer>>

InterfaceAttachCmd(name, namespace) ==
  <<"ip", "link", "set", name, "netns", namespace.name>>

SetIpCmd(namespace, name, ip) ==
  IF namespace # None
  THEN <<"ip", "netns", "exec", namespace[1].name, "ip", "addr", "add", ip, "dev", name>>
  ELSE <<"ip", "addr", "add", ip, "dev", name>>

\* Mutant of SetMtuCmd: the namespace-scoped form orders its arguments differently.
SetMtuCmd_NsReordered(namespace, name, mtu) ==
  IF namespace # None
  THEN <<"ip", "netns", "exec", namespace[1].name, "ip", "link", "set", "mtu",
         ToString(mtu), "dev", name>>
  ELSE <<"ip", "link", "set", "dev", name, "mtu", ToString(mtu)>>

SetMtuCmd(namespace, name, mtu) ==
  IF namespace # None
  THEN <<"ip", "netns", "exec", namespace[1].name, "ip", "link", "set", "dev", name,
         "mtu", ToString(mtu)>>
  ELSE <<"ip", "link", "set", "dev", name, "mtu", ToString(mtu)>>

SetUpCmd(namespace, name) ==
  IF namespace # None
  THEN <<"ip", "netns", "exec", namespace[1].name, "ip", "link", "set", "dev", name, "up">>
  ELSE <<"ip", "link", "set", "dev", name, "up">>

\* ------------------------------------------------------------------ Config
EmptyMap == [x \in {} |-> None]

ConfigNew == [namespaces |-> EmptyMap, links |-> EmptyMap, interfaces |-> EmptyMap]

\* Mutant of Insert: the map is started afresh with the new entry.
Insert_Fresh(map, key, value) == [k \in {key} |-> value]

Insert(map, key, value) ==
  [k \in DOMAIN map \cup {key} |-> IF k = key THEN value ELSE map[k]]

Handles(map) == {map[k] : k \in DOMAIN map}

Outcome(cfg, log, err, ret) == [config |-> cfg, issued |-> log, err |-> err, ret |-> ret]

\* ------------------------------------------------------------------ Namespace::new
\* Mutant of NamespaceNewPlan: forwarding is never enabled.
NamespaceNewPlan_NoRouting(name, ecmp) ==
  <<NamespaceCreateCmd(name)>> \o (IF ecmp THEN <<EnableEcmpCmd(name)>> ELSE <<>>)

NamespaceNewPlan(name, ecmp) ==
  <<NamespaceCreateCmd(name), EnableRoutingCmd(name)>>
    \o (IF ecmp THEN <<EnableEcmpCmd(name)>> ELSE <<>>)

\* Mutant of NamespaceNewOp: the Namespace is registered before its commands run.
NamespaceNewOp_RegistersFirst(name, ecmp, cfg, o) ==
  IF name \in DOMAIN cfg.namespaces
  THEN Outcome(cfg, <<>>, "NameConflict", <<>>)
  ELSE LET n == [name |-> name]
           r == RunChecked(NamespaceNewPlan(name, ecmp), o, 0)
       IN Outcome([cfg EXCEPT !.namespaces = Insert(@, name, n)], r.issued, r.err,
                  IF r.err = "" THEN <<n>> ELSE <<>>)

NamespaceNewOp(name, ecmp, cfg, o) ==
  IF name \in DOMAIN cfg.namespaces
  THEN Outcome(cfg, <<>>, "NameConflict", <<>>)
  ELSE LET n == [name |-> name]
           r == RunChecked(NamespaceNewPlan(name, ecmp), o, 0)
       IN IF r.err # ""
          THEN Outcome(cfg, r.issued, r.err, <<>>)
          ELSE Outcome([cfg EXCEPT !.namespaces = Insert(@, name, n)], r.issued, "", <<n>>)

\* ------------------------------------------------------------------ Link::new
\* Mutant of LinkNewOp: no uniqueness check, the entry is replaced.
LinkNewOp_NoCheck(name, subnet, cfg) ==
  LET r == [name |-> name, subnet |-> subnet]
  IN Outcome([cfg EXCEPT !.links = Insert(@, name, r)], <<>>, "", <<r>>)

\* Mutant of LinkNewOp: the subnet text is parsed when the Link is created.
LinkNewOp_ValidatesSubnet(name, subnet, cfg) ==
  IF name \in DOMAIN cfg.links
  THEN Outcome(cfg, <<>>, "NameConflict", <<>>)
  ELSE IF ~IpNetParses(subnet)
  THEN Outcome(cfg, <<>>, "AddressParseFailure", <<>>)
  ELSE LET r == [name |-> name, subnet |-> subnet]
       IN Outcome([cfg EXCEPT !.links = Insert(@, name, r)], <<>>, "", <<r>>)

LinkNewOp(name, subnet, cfg) ==
  IF name \in DOMAIN cfg.links
  THEN Outcome(cfg, <<>>, "NameConflict", <<>>)
  ELSE LET r == [name |-> name, subnet |-> subnet]
       IN Outcome([cfg EXCEPT !.links = Insert(@, name, r)], <<>>, "", <<r>>)

\* ------------------------------------------------------------------ Interface::new
InterfaceNewPlan(name, namespace, ip, mtu) ==
  (IF namespace # None THEN <<InterfaceAttachCmd(name, namespace[1])>> ELSE <<>>)
    \o (IF ip # None THEN <<SetIpCmd(namespace, name, Str(ip[1]))>> ELSE <<>>)
    \o (IF mtu # None THEN <<SetMtuCmd(namespace, name, mtu[1])>> ELSE <<>>)
    \o <<SetUpCmd(namespace, name)>>

\* Mutant of InterfaceNewOp: the Interface is registered even when one of its
\* commands failed.
InterfaceNewOp_RegistersAnyway(name, namespace, ip, mtu, cfg, o, off) ==
  IF name \in DOMAIN cfg.interfaces
  THEN Outcome(cfg, <<>>, "NameConflict", <<>>)
  ELSE LET i == [name |-> name, ip |-> ip, namespace |-> namespace, mtu |-> mtu]
           r == RunChecked(InterfaceNewPlan(name, namespace, ip, mtu), o, off)
       IN Outcome([cfg EXCEPT !.interfaces = Insert(@, name, i)], r.issued, r.err,
                  IF r.err = "" THEN <<i>> ELSE <<>>)

\* Mutant of InterfaceNewOp: the address is applied but not recorded in the
\* Interface.
InterfaceNewOp_DropsIp(name, namespace, ip, mtu, cfg, o, off) ==
  IF name \in DOMAIN cfg.interfaces
  THEN Outcome(cfg, <<>>, "NameConflict", <<>>)
  ELSE LET i == [name |-> name, ip |-> None, namespace |-> namespace, mtu |-> mtu]
           r == RunChecked(InterfaceNewPlan(name, namespace, ip, mtu), o, off)
       IN IF r.err # ""
          THEN Outcome(cfg, r.issued, r.err, <<>>)
          ELSE Outcome([cfg EXCEPT !.interfaces = Insert(@, name, i)], r.issued, "", <<i>>)

\* `off` is the number of commands the calling operation has issued before.
InterfaceNewOp(name, namespace, ip, mtu, cfg, o, off) ==
  IF name \in DOMAIN cfg.interfaces
  THEN Outcome(cfg, <<>>, "NameConflict", <<>>)
  ELSE LET i == [name |-> name, ip |-> ip, namespace |-> namespace, mtu |-> mtu]
           r == RunChecked(InterfaceNewPlan(name, namespace, ip, mtu), o, off)
       IN IF r.err # ""
          THEN Outcome(cfg, r.issued, r.err, <<>>)
          ELSE Outcome([cfg EXCEPT !.interfaces = Insert(@, name, i)], r.issued, "", <<i>>)

\* ------------------------------------------------------------------ Link::attach
\* Mutant of HostIp: hosts are numbered from the subnet address itself.
HostIp_ZeroBased(sn_v4_octets, k, pl) ==
  <<Ipv4ToString(U32ToBeBytes(U32WrappingAdd(sn_v4_octets, k - 1))), ToString(pl)>>

\* host = subnet address + k; `+` on u32 panics on overflow when the build has
\* overflow checks and wraps otherwise.
HostIp(sn_v4_octets, k, pl) ==
  <<Ipv4ToString(U32ToBeBytes(U32WrappingAdd(sn_v4_octets, k))), ToString(pl)>>

\* Mutant of LinkAttachOp: the subnet is parsed before the veth pair is created.
LinkAttachOp_ParsesFirst(link, ns1, ns2, cfg, o, checks) ==
  LET name1 == DeviceName(ns1.name, link.name)
      name2 == DeviceName(ns2.name, link.name)
      veth == RunChecked(<<VethCreateCmd(name1, name2)>>, o, 0)
  IN IF ~IpNetParses(link.subnet)
     THEN Outcome(cfg, <<>>, "AddressParseFailure", <<>>)
     ELSE IF veth.err # ""
     THEN Outcome(cfg, veth.issued, veth.err, <<>>)
     ELSE LET pl == IpNetPrefixLen(link.subnet)
              sn_v4_octets == U32FromBeBytes(IpNetAddr(link.subnet))
          IN IF checks /\ (U32AddOverflows(sn_v4_octets, 1) \/ U32AddOverflows(sn_v4_octets, 2))
             THEN Outcome(cfg, veth.issued, "Panic", <<>>)
             ELSE LET i1 == InterfaceNewOp(name1, Some(ns1), Some(HostIp(sn_v4_octets, 1, pl)),
                                           Some(LinkMtu), cfg, o, 1)
                  IN IF i1.err # ""
                     THEN Outcome(i1.config, veth.issued \o i1.issued, i1.err, <<>>)
                     ELSE LET i2 == InterfaceNewOp(name2, Some(ns2),
                                                   Some(HostIp(sn_v4_octets, 2, pl)),
                                                   Some(LinkMtu), i1.config, o,
                                                   1 + Len(i1.issued))
                          IN Outcome(i2.config, veth.issued \o i1.issued \o i2.issued, i2.err,
                                     IF i2.err = "" THEN <<i1.ret[1], i2.ret[1]>> ELSE <<>>)

\* Mutant of LinkAttachOp: when Interface B fails, Interface A is taken out of
\* the registry again.
LinkAttachOp_RollsBack(link, ns1, ns2, cfg, o, checks) ==
  LET name1 == DeviceName(ns1.name, link.name)
      name2 == DeviceName(ns2.name, link.name)
      veth == RunChecked(<<VethCreateCmd(name1, name2)>>, o, 0)
  IN IF veth.err # ""
     THEN Outcome(cfg, veth.issued, veth.err, <<>>)
     ELSE IF ~IpNetParses(link.subnet)
     THEN Outcome(cfg, veth.issued, "AddressParseFailure", <<>>)
     ELSE LET pl == IpNetPrefixLen(link.subnet)
              sn_v4_octets == U32FromBeBytes(IpNetAddr(link.subnet))
          IN IF checks /\ (U32AddOverflows(sn_v4_octets, 1) \/ U32AddOverflows(sn_v4_octets, 2))
             THEN Outcome(cfg, veth.issued, "Panic", <<>>)
             ELSE LET i1 == InterfaceNewOp(name1, Some(ns1), Some(HostIp(sn_v4_octets, 1, pl)),
                                           Some(LinkMtu), cfg, o, 1)
                  IN IF i1.err # ""
                     THEN Outcome(i1.config, veth.issued \o i1.issued, i1.err, <<>>)
                     ELSE LET i2 == InterfaceNewOp(name2, Some(ns2),
                                                   Some(HostIp(sn_v4_octets, 2, pl)),
                                                   Some(LinkMtu), i1.config, o,
                                                   1 + Len(i1.issued))
                              log == veth.issued \o i1.issued \o i2.issued
                          IN IF i2.err # ""
                             THEN Outcome(cfg, log, i2.err, <<>>)
                             ELSE Outcome(i2.config, log, "", <<i1.ret[1], i2.ret[1]>>)

LinkAttachOp(link, ns1, ns2, cfg, o, checks) ==
  LET name1 == DeviceName(ns1.name, link.name)
      name2 == DeviceName(ns2.name, link.name)
      veth == RunChecked(<<VethCreateCmd(name1, name2)>>, o, 0)
  IN IF veth.err # ""
     THEN Outcome(cfg, veth.issued, veth.err, <<>>)
     ELSE IF ~IpNetParses(link.subnet)
     THEN Outcome(cfg, veth.issued, "AddressParseFailure", <<>>)
     ELSE LET pl == IpNetPrefixLen(link.subnet)
              sn_v4_octets == U32FromBeBytes(IpNetAddr(link.subnet))
          IN IF checks /\ (U32AddOverflows(sn_v4_octets, 1) \/ U32AddOverflows(sn_v4_octets, 2))
             THEN Outcome(cfg, veth.issued, "Panic", <<>>)
             ELSE LET ip1 == HostIp(sn_v4_octets, 1, pl)
                      ip2 == HostIp(sn_v4_octets, 2, pl)
                      i1 == InterfaceNewOp(name1, Some(ns1), Some(ip1), Some(LinkMtu), cfg, o, 1)
                  IN IF i1.err # ""
                     THEN Outcome(i1.config, veth.issued \o i1.issued, i1.err, <<>>)
                     ELSE LET i2 == InterfaceNewOp(name2, Some(ns2), Some(ip2), Some(LinkMtu),
                                                   i1.config, o, 1 + Len(i1.issued))
                              log == veth.issued \o i1.issued \o i2.issued
                          IN IF i2.err # ""
                             THEN Outcome(i2.config, log, i2.err, <<>>)
                             ELSE Outcome(i2.config, log, "", <<i1.ret[1], i2.ret[1]>>)

\* ------------------------------------------------------------------ Namespace::add_route
\* Mutant of RouteArgs: the weight clause is pushed for a single gateway too.
RECURSIVE RouteArgs_WeightAlways(_, _, _)
RouteArgs_WeightAlways(gateway, i, args) ==
  IF i > Len(gateway) THEN [err |-> "", args |-> args]
  ELSE IF gateway[i].ip = None THEN [err |-> "MissingAddress", args |-> args]
  ELSE RouteArgs_WeightAlways(gateway, i + 1,
         args \o <<"nexthop", "via", SplitSlash(gateway[i].ip[1])[1], "weight", "1">>)

\* The loop over route.gateway; `args` is what has been pushed so far.
RECURSIVE RouteArgs(_, _, _)
RouteArgs(gateway, i, args) ==
  IF i > Len(gateway) THEN [err |-> "", args |-> args]
  ELSE IF gateway[i].ip = None THEN [err |-> "MissingAddress", args |-> args]
  ELSE RouteArgs(gateway, i + 1,
                 args \o <<"nexthop", "via", SplitSlash(gateway[i].ip[1])[1]>>
                      \o (IF Len(gateway) > 1 THEN <<"weight", "1">> ELSE <<>>))

\* Mutant of AddRouteOp: the command is run with what was built before the
\* missing address is reported.
AddRouteOp_RunsAnyway(self, route, cfg, o) ==
  LET a == RouteArgs(route.gateway, 1,
                     <<"netns", "exec", self.name, "ip", "route", "add", route.dst>>)
      st == Status(o, 1)
      log == <<[argv |-> <<"ip">> \o a.args, status |-> st]>>
  IN IF st = "spawn" THEN Outcome(cfg, log, "IoError", <<>>)
     ELSE Outcome(cfg, log, a.err, <<>>)

\* Mutant of AddRouteOp: the route-add command's exit status is checked like
\* every other command's.
AddRouteOp_ChecksStatus(self, route, cfg, o) ==
  LET a == RouteArgs(route.gateway, 1,
                     <<"netns", "exec", self.name, "ip", "route", "add", route.dst>>)
  IN IF a.err # ""
     THEN Outcome(cfg, <<>>, a.err, <<>>)
     ELSE LET st == Status(o, 1)
              log == <<[argv |-> <<"ip">> \o a.args, status |-> st]>>
          IN Outcome(cfg, log, ErrOf(st), <<>>)

AddRouteOp(self, route, cfg, o) ==
  LET a == RouteArgs(route.gateway, 1,
                     <<"netns", "exec", self.name, "ip", "route", "add", route.dst>>)
  IN IF a.err # ""
     THEN Outcome(cfg, <<>>, a.err, <<>>)
     ELSE LET st == Status(o, 1)
              log == <<[argv |-> <<"ip">> \o a.args, status |-> st]>>
          IN IF st = "spawn"
             THEN Outcome(cfg, log, "IoError", <<>>)
             ELSE Outcome(cfg, log, "", <<>>)

\* ------------------------------------------------------------------ state machine
\* A panic ends the process.
Running == result.err # "Panic"

Finish(c, outcome) ==
  \E r \in {outcome} :
    /\ config' = r.config
    /\ call' = c
    /\ issued' = r.issued
    /\ result' = [err |-> r.err, ret |-> r.ret]

NamespaceNewCall(name, ecmp, o) ==
  /\ Finish([op |-> "Namespace::new", name |-> name, ecmp |-> ecmp],
            NamespaceNewOp(name, ecmp, config, o))
  /\ UNCHANGED overflow_checks

LinkNewCall(name, subnet) ==
  /\ Finish([op |-> "Link::new", name |-> name, subnet |-> subnet],
            LinkNewOp(name, subnet, config))
  /\ UNCHANGED overflow_checks

InterfaceNewCall(name, namespace, ip, mtu, o) ==
  /\ Finish([op |-> "Interface::new", name |-> name, namespace |-> namespace, ip |-> ip,
             mtu |-> mtu],
            InterfaceNewOp(name, namespace, ip, mtu, config, o, 0))
  /\ UNCHANGED overflow_checks

\* The attach reaches `sn_v4_octets + 1` / `+ 2` and one of them overflows.
OverflowObserved(link, o) ==
  /\ Status(o, 1) = "ok"
  /\ IpNetParses(link.subnet)
  /\ \E k \in {1, 2} : U32AddOverflows(U32FromBeBytes(IpNetAddr(link.subnet)), k)

LinkAttachCall(link, ns1, ns2, o, checks) ==
  /\ Finish([op |-> "Link::attach", link |-> link, ns1 |-> ns1, ns2 |-> ns2],
            LinkAttachOp(link, ns1, ns2, config, o, checks))
  /\ overflow_checks' = IF OverflowObserved(link, o) THEN Some(checks) ELSE overflow_checks

AddRouteCall(self, route, o) ==
  /\ Finish([op |-> "Namespace::add_route", self |-> self, route |-> route],
            AddRouteOp(self, route, config, o))
  /\ UNCHANGED overflow_checks

\* The system's answers to an attach: `ip link add X type veth peer name X` cannot
\* succeed (the peer's name is taken by the device itself), so with ns1 = ns2 the
\* veth-create command fails.
AttachOracles(link, ns1, ns2, checks) ==
  {o \in Oracles(Len(LinkAttachOp(link, ns1, ns2, config, NoFailure, checks).issued)) :
     ns1.name = ns2.name => o.fail = 1}

\* Option<T> over a set of values
Opt(S) == {None} \cup {Some(x) : x \in S}

\* Vec<Arc<Interface>> of at most MaxGw handles
Gateways(S) == UNION {[1..n -> S] : n \in 0..MaxGw}

\* The build either checks arithmetic overflow (panic) or wraps; one build does
\* the same throughout.
Profiles == IF overflow_checks = None THEN BOOLEAN ELSE {overflow_checks[1]}

Init ==
  /\ config = ConfigNew
  /\ call = [op |-> "Config::new"]
  /\ issued = <<>>
  /\ result = [err |-> "", ret |-> <<>>]
  /\ overflow_checks = None
  /\ history = <<>>
  /\ trace = <<>>

\* ---- any caller: the operations in any order, on handles obtained before
NamespaceNew ==
  /\ Running
  /\ \E name \in NsNames, ecmp \in BOOLEAN :
       \E o \in Oracles(Len(NamespaceNewOp(name, ecmp, config, NoFailure).issued)) :
         NamespaceNewCall(name, ecmp, o)
  /\ UNCHANGED <<history, trace>>

LinkNew ==
  /\ Running
  /\ \E name \in LinkNames, subnet \in Subnets : LinkNewCall(name, subnet)
  /\ UNCHANGED <<history, trace>>

InterfaceNew ==
  /\ Running
  /\ \E name \in IfNames, namespace \in Opt(Handles(config.namespaces)), ip \in Opt(IpTexts),
        mtu \in Opt({LinkMtu}) :
       \E o \in Oracles(Len(InterfaceNewOp(name, namespace, ip, mtu, config, NoFailure, 0).issued)) :
         InterfaceNewCall(name, namespace, ip, mtu, o)
  /\ UNCHANGED <<history, trace>>

LinkAttach ==
  /\ Running
  /\ \E link \in Handles(config.links), ns1, ns2 \in Handles(config.namespaces),
        checks \in Profiles :
       \E o \in AttachOracles(link, ns1, ns2, checks) :
         LinkAttachCall(link, ns1, ns2, o, checks)
  /\ UNCHANGED <<history, trace>>

AddRoute ==
  /\ Running
  /\ \E self \in Handles(config.namespaces), dst \in Dsts,
        gateway \in Gateways(Handles(config.interfaces)) :
       \E o \in Oracles(Len(AddRouteOp(self, [dst |-> dst, gateway |-> gateway], config,
                                        NoFailure).issued)) :
         AddRouteCall(self, [dst |-> dst, gateway |-> gateway], o)
  /\ UNCHANGED <<history, trace>>

Next == NamespaceNew \/ LinkNew \/ InterfaceNew \/ LinkAttach \/ AddRoute

Spec == Init /\ [][Next]_vars

\* ---- a main()-style run: two Namespaces, a Link, its attach, a route; every
\* call is followed by `?`, so the first error ends the run.
Proceeding(k) ==
  /\ Running
  /\ Len(history) = k
  /\ \A i \in 1..k : history[i].err = ""

Record ==
  /\ history' = Append(history, [call |-> call', err |-> result'.err])
  /\ trace' = trace \o issued'

MainNamespace ==
  /\ Proceeding(0) \/ Proceeding(1)
  /\ \E name \in NsNames, ecmp \in BOOLEAN :
       \E o \in Oracles(Len(NamespaceNewOp(name, ecmp, config, NoFailure).issued)) :
         NamespaceNewCall(name, ecmp, o)
  /\ Record

MainLink ==
  /\ Proceeding(2)
  /\ \E name \in LinkNames, subnet \in Subnets : LinkNewCall(name, subnet)
  /\ Record

MainAttach ==
  /\ Proceeding(3)
  /\ \E link \in Handles(config.links), ns1, ns2 \in Handles(config.namespaces),
        checks \in Profiles :
       \E o \in AttachOracles(link, ns1, ns2, checks) :
         LinkAttachCall(link, ns1, ns2, o, checks)
  /\ Record

MainRoute ==
  /\ Proceeding(4)
  /\ \E self \in Handles(config.namespaces), dst \in Dsts,
        gateway \in Gateways(Handles(config.interfaces)) :
       \E o \in Oracles(Len(AddRouteOp(self, [dst |-> dst, gateway |-> gateway], config,
                                        NoFailure).issued)) :
         AddRouteCall(self, [dst |-> dst, gateway |-> gateway], o)
  /\ Record

NextMain == MainNamespace \/ MainLink \/ MainAttach \/ MainRoute

SpecMain == Init /\ [][NextMain]_vars

\* ================================================================== claims
IsAttach == call.op = "Link::attach"
IsInterfaceNew == call.op = "Interface::new"
IsNamespaceNew == call.op = "Namespace::new"
IsAddRoute == call.op = "Namespace::add_route"

Argv(log) == [i \in 1..Len(log) |-> log[i].argv]

AllOk(log) == \A i \in 1..Len(log) : log[i].status = "ok"

\* `log` is a run of the steps `expected` in order that stops at the first command
\* that fails: every command but the last succeeded, and the run is complete
\* exactly when nothing failed.
StopsAtFirstFailure(log, expected) ==
  /\ Len(log) <= Len(expected)
  /\ Argv(log) = SubSeq(expected, 1, Len(log))
  /\ \A i \in 1..(Len(log) - 1) : log[i].status = "ok"
  /\ ~AllOk(log) \/ Len(log) = Len(expected)

\* C1: a creation whose name is already registered for its kind fails with
\* NameConflict, issues no command and leaves the three Registry maps unchanged
\* (Namespace, Link and Interface alike).
C1_DuplicateCreationRejected ==
  [][ /\ ( /\ call'.op = "Namespace::new"
           /\ call'.name \in DOMAIN config.namespaces )
         => (result'.err = "NameConflict" /\ issued' = <<>> /\ config' = config)
      /\ ( /\ call'.op = "Link::new"
           /\ call'.name \in DOMAIN config.links )
         => (result'.err = "NameConflict" /\ issued' = <<>> /\ config' = config)
      /\ ( /\ call'.op = "Interface::new"
           /\ call'.name \in DOMAIN config.interfaces )
         => (result'.err = "NameConflict" /\ issued' = <<>> /\ config' = config)
    ]_vars

C1_Witness ==
  /\ IsInterfaceNew
  /\ call.name \in DOMAIN config.interfaces
  /\ result.err = "NameConflict"
  /\ DOMAIN config.namespaces # {}
  /\ DOMAIN config.links # {}

\* The network base address of a.b.c.d/p: the address with its 32 - p host bits
\* cleared, as a u32 in two 16-bit limbs.
RECURSIVE Pow2(_)
Pow2(n) == IF n = 0 THEN 1 ELSE 2 * Pow2(n - 1)

NetworkBase(oct, pl) ==
  LET v == U32FromBeBytes(oct)
  IN IF pl >= 16
     THEN [hi |-> v.hi, lo |-> v.lo - (v.lo % Pow2(32 - pl))]
     ELSE [hi |-> v.hi - (v.hi % Pow2(16 - pl)), lo |-> 0]

\* base + k without wrapping; dotted text of the result (an octet above 255 shows
\* a sum that does not fit 32 bits).
PlainAdd(v, k) == [hi |-> v.hi + ((v.lo + k) \div 65536), lo |-> (v.lo + k) % 65536]

ClaimedHost(subnet, k) ==
  <<Ipv4ToString(U32ToBeBytes(PlainAdd(NetworkBase(IpNetAddr(subnet), IpNetPrefixLen(subnet)), k))),
    ToString(IpNetPrefixLen(subnet))>>

\* C2: a successful attach(nsA, nsB) returns (A, B) with A in nsA at
\* (network base + 1)/prefix and B in nsB at (network base + 2)/prefix, the
\* network base being the subnet's address with its host bits cleared.
C2_HostsFromNetworkBase ==
  (IsAttach /\ result.err = "")
    => /\ Len(result.ret) = 2
       /\ result.ret[1].namespace = Some(call.ns1)
       /\ result.ret[2].namespace = Some(call.ns2)
       /\ result.ret[1].ip = Some(ClaimedHost(call.link.subnet, 1))
       /\ result.ret[2].ip = Some(ClaimedHost(call.link.subnet, 2))

\* What C3 expects after the destination: per gateway, in order,
\* nexthop via <address>, then weight 1 exactly when there are several gateways.
RECURSIVE ExpectedNexthops(_, _)
ExpectedNexthops(gateway, n) ==
  IF gateway = <<>> THEN <<>>
  ELSE <<"nexthop", "via", Head(gateway).ip[1][1]>>
         \o (IF n > 1 THEN <<"weight", "1">> ELSE <<>>)
         \o ExpectedNexthops(Tail(gateway), n)

AllAddressed(gateway) == \A i \in 1..Len(gateway) : gateway[i].ip # None

\* C3: add_route with gateways that all have addresses issues one route-add
\* command: the destination, then for each gateway in input order
\* `nexthop via <address without /prefix>`, each followed by `weight 1` iff there
\* is more than one gateway (no `weight` token at all with a single gateway).
C3_RouteArgumentShape ==
  (IsAddRoute /\ AllAddressed(call.route.gateway))
    => LET gw == call.route.gateway
           argv == issued[1].argv
       IN /\ Len(issued) = 1
          /\ argv = <<"ip", "netns", "exec", call.self.name, "ip", "route", "add", call.route.dst>>
                      \o ExpectedNexthops(gw, Len(gw))
          /\ Len(gw) = 1 => \A i \in 1..Len(argv) : argv[i] # "weight"
          /\ Len(gw) > 1 => Len(argv) = 8 + 5 * Len(gw)

C3_Witness ==
  /\ IsAddRoute
  /\ Len(call.route.gateway) = 2
  /\ AllAddressed(call.route.gateway)
  /\ call.route.gateway[1] # call.route.gateway[2]
  /\ Len(issued) = 1

\* C4: add_route with a gateway that has no address fails with MissingAddress
\* and issues no command, wherever that gateway stands in the list.
C4_MissingAddressBeforeCommand ==
  (IsAddRoute /\ ~AllAddressed(call.route.gateway))
    => (result.err = "MissingAddress" /\ issued = <<>>)

C4_Witness ==
  /\ IsAddRoute
  /\ Len(call.route.gateway) = 2
  /\ call.route.gateway[1].ip # None
  /\ call.route.gateway[2].ip = None
  /\ result.err = "MissingAddress"

\* C5: an attach repeated for the same Link and namespace pair right after it
\* succeeded fails with NameConflict.
C5_SecondAttachNameConflict ==
  [][ (IsAttach /\ result.err = "" /\ call' = call) => result'.err = "NameConflict" ]_vars

\* C6: an operation that ends in NameConflict has issued no command.
C6_NoCommandBeforeNameConflict ==
  result.err = "NameConflict" => issued = <<>>

\* The run of C7: r1 and r2 without ECMP hashing, link1 = 10.0.0.0/24 attached
\* between (r1, r2), a route on r1 to 192.168.1.0/24 via the r1-side Interface,
\* every command succeeding.
EndToEndRun ==
  /\ Len(history) = 5
  /\ \A i \in 1..5 : history[i].err = ""
  /\ AllOk(trace)
  /\ history[1].call = [op |-> "Namespace::new", name |-> "r1", ecmp |-> FALSE]
  /\ history[2].call = [op |-> "Namespace::new", name |-> "r2", ecmp |-> FALSE]
  /\ history[3].call = [op |-> "Link::new", name |-> "link1",
                        subnet |-> << <<10, 0, 0, 0>>, <<24>> >>]
  /\ history[4].call.ns1.name = "r1"
  /\ history[4].call.ns2.name = "r2"
  /\ history[5].call.self.name = "r1"
  /\ history[5].call.route.dst = "192.168.1.0/24"
  /\ Len(history[5].call.route.gateway) = 1
  /\ history[5].call.route.gateway[1].name = "r1_link1"

EndToEndTrace ==
  << <<"ip", "netns", "add", "r1">>,
     <<"ip", "netns", "exec", "r1", "sysctl", "-w", "net.ipv4.ip_forward=1">>,
     <<"ip", "netns", "add", "r2">>,
     <<"ip", "netns", "exec", "r2", "sysctl", "-w", "net.ipv4.ip_forward=1">>,
     <<"ip", "link", "add", "r1_link1", "type", "veth", "peer", "name", "r2_link1">>,
     <<"ip", "link", "set", "r1_link1", "netns", "r1">>,
     <<"ip", "netns", "exec", "r1", "ip", "addr", "add", "10.0.0.1/24", "dev", "r1_link1">>,
     <<"ip", "netns", "exec", "r1", "ip", "link", "set", "dev", "r1_link1", "mtu", "3000">>,
     <<"ip", "netns", "exec", "r1", "ip", "link", "set", "dev", "r1_link1", "up">>,
     <<"ip", "link", "set", "r2_link1", "netns", "r2">>,
     <<"ip", "netns", "exec", "r2", "ip", "addr", "add", "10.0.0.2/24", "dev", "r2_link1">>,
     <<"ip", "netns", "exec", "r2", "ip", "link", "set", "dev", "r2_link1", "mtu", "3000">>,
     <<"ip", "netns", "exec", "r2", "ip", "link", "set", "dev", "r2_link1", "up">>,
     <<"ip", "netns", "exec", "r1", "ip", "route", "add", "192.168.1.0/24",
       "nexthop", "via", "10.0.0.1">> >>

\* C7: the end-to-end run issues exactly namespace-create x2, forwarding-enable
\* x2, veth-create x1, device-move x2, address-set x2 (10.0.0.1/24 then
\* 10.0.0.2/24), mtu-set x2 (3000), up x2 and one route-add with a single nexthop
\* and no weight clause, and nothing else: its trace is EndToEndTrace.
C7_EndToEndTrace ==
  EndToEndRun => Argv(trace) = EndToEndTrace

C7_Witness ==
  EndToEndRun /\ Len(trace) = 14

\* The host-context forms of the three setters, and the namespace-entry wrapper.
HostForms(name, ip, mtu) ==
  (IF ip # None THEN {<<"ip", "addr", "add", Str(ip[1]), "dev", name>>} ELSE {})
    \cup (IF mtu # None THEN {<<"ip", "link", "set", "dev", name, "mtu", ToString(mtu[1])>>}
          ELSE {})
    \cup {<<"ip", "link", "set", "dev", name, "up">>}

Wrapper(ns) == <<"ip", "netns", "exec", ns.name>>

\* C8: the address-set, mtu-set and set-up commands of an Interface in a
\* namespace are the namespace-entry wrapper followed by exactly the host-context
\* command (same device, same value, same order); without a namespace they are
\* the host-context command itself.
C8_DualModeEquivalence ==
  IsInterfaceNew
    => LET host == HostForms(call.name, call.ip, call.mtu)
       IN IF call.namespace = None
          THEN \A i \in 1..Len(issued) : issued[i].argv \in host
          ELSE \A i \in 2..Len(issued) :
                 /\ SubSeq(issued[i].argv, 1, 4) = Wrapper(call.namespace[1])
                 /\ SubSeq(issued[i].argv, 5, Len(issued[i].argv)) \in host

C8_Witness ==
  /\ IsInterfaceNew
  /\ call.namespace # None
  /\ call.ip # None
  /\ call.mtu # None
  /\ Len(issued) = 4
  /\ result.err = ""

\* The steps of Interface::new in the order C9 states.
InterfaceSteps(c) ==
  (IF c.namespace # None THEN <<InterfaceAttachCmd(c.name, c.namespace[1])>> ELSE <<>>)
    \o (IF c.ip # None THEN <<SetIpCmd(c.namespace, c.name, Str(c.ip[1]))>> ELSE <<>>)
    \o (IF c.mtu # None THEN <<SetMtuCmd(c.namespace, c.name, c.mtu[1])>> ELSE <<>>)
    \o <<SetUpCmd(c.namespace, c.name)>>

\* C9: Interface::new issues move, address-set, mtu-set, set-up in that order,
\* the first three only when their input is present; the first command that
\* fails ends construction with an error, no later command is issued and the
\* Interface is not registered.
C9_InterfaceNewOrderAndAbort ==
  (IsInterfaceNew /\ result.err # "NameConflict")
    => /\ StopsAtFirstFailure(issued, InterfaceSteps(call))
       /\ AllOk(issued) <=> result.err = ""
       /\ result.err = "" <=> call.name \in DOMAIN config.interfaces
       /\ result.err = "" => config.interfaces[call.name] = result.ret[1]

C9_Witness ==
  /\ IsInterfaceNew
  /\ call.namespace # None
  /\ call.ip # None
  /\ call.mtu # None
  /\ Len(issued) = 2
  /\ issued[2].status = "nonzero"
  /\ result.err = "CommandFailure"
  /\ call.name \notin DOMAIN config.interfaces

\* C10: Namespace::new issues namespace-create, forwarding-enable and, only with
\* the ECMP flag, multipath-hash-policy, in that order; the first failing command
\* ends it with an error; the Namespace is registered only when every step
\* succeeded; nothing else (no undo command) is issued.
C10_NamespaceNewOrderAndAbort ==
  (IsNamespaceNew /\ result.err # "NameConflict")
    => /\ StopsAtFirstFailure(issued,
            <<NamespaceCreateCmd(call.name), EnableRoutingCmd(call.name)>>
              \o (IF call.ecmp THEN <<EnableEcmpCmd(call.name)>> ELSE <<>>))
       /\ AllOk(issued) <=> result.err = ""
       /\ result.err = "" <=> call.name \in DOMAIN config.namespaces

C10_Witness ==
  /\ IsNamespaceNew
  /\ call.ecmp
  /\ Len(issued) = 3
  /\ issued[3].status = "nonzero"
  /\ result.err = "CommandFailure"
  /\ call.name \notin DOMAIN config.namespaces


\* The veth-create command of the attach `c`.
AttachVeth(c) ==
  VethCreateCmd(DeviceName(c.ns1.name, c.link.name), DeviceName(c.ns2.name, c.link.name))

\* C11: attach issues veth-create before it parses the subnet. With a malformed
\* subnet and veth-create succeeding it fails with AddressParseFailure having
\* issued veth-create and nothing else, and registers nothing; when veth-create
\* fails the subnet is not looked at: the error is the command's (CommandFailure
\* for a non-success status), never AddressParseFailure, malformed subnet or not.
C11_VethBeforeParse ==
  [][ call'.op = "Link::attach"
        => /\ Len(issued') >= 1
           /\ issued'[1].argv = AttachVeth(call')
           /\ (issued'[1].status = "ok" /\ ~IpNetParses(call'.link.subnet))
                => /\ result'.err = "AddressParseFailure"
                   /\ Len(issued') = 1
                   /\ config' = config
           /\ issued'[1].status # "ok"
                => /\ result'.err = ErrOf(issued'[1].status)
                   /\ result'.err # "AddressParseFailure"
                   /\ issued'[1].status = "nonzero" => result'.err = "CommandFailure"
                   /\ Len(issued') = 1
                   /\ config' = config
    ]_vars

C11_Witness ==
  /\ IsAttach
  /\ ~IpNetParses(call.link.subnet)
  /\ call.ns1 # call.ns2
  /\ Len(issued) = 1
  /\ issued[1].status = "ok"
  /\ result.err = "AddressParseFailure"
  /\ DOMAIN config.interfaces = {}


\* The Interface that the attach `c` builds on side k (1 is A, 2 is B).
AttachSide(c, k) ==
  LET ns == IF k = 1 THEN c.ns1 ELSE c.ns2
  IN [name |-> DeviceName(ns.name, c.link.name),
      ip |-> Some(HostIp(U32FromBeBytes(IpNetAddr(c.link.subnet)), k,
                         IpNetPrefixLen(c.link.subnet))),
      namespace |-> Some(ns),
      mtu |-> Some(LinkMtu)]

\* C12: attach provisions Interface A completely before any command for
\* Interface B and rolls nothing back. Its commands are a run of veth-create,
\* A's four steps, B's four steps, stopped at the first failure, with nothing
\* else (no undo). Once A's steps succeeded A is registered and stays so whatever
\* happens to B; when a step of B fails the registry is the old one plus A; when
\* a step of A fails no command for B is issued and the attach registers nothing.
C12_AThenBNoRollback ==
  [][ ( /\ call'.op = "Link::attach"
        /\ IpNetParses(call'.link.subnet)
        /\ result'.err # "Panic" )
        => \A a \in {AttachSide(call', 1)}, b \in {AttachSide(call', 2)},
              n \in {Len(issued')} :
              /\ n >= 1
              /\ Argv(issued') = SubSeq(<<AttachVeth(call')>> \o InterfaceSteps(a)
                                          \o InterfaceSteps(b), 1, n)
              /\ \A i \in 1..(n - 1) : issued'[i].status = "ok"
              /\ (n >= 5 /\ AllOk(SubSeq(issued', 1, 5)))
                   => /\ a.name \in DOMAIN config'.interfaces
                      /\ config'.interfaces[a.name] = a
              /\ (n >= 6 /\ issued'[n].status # "ok")
                   => /\ result'.err # ""
                      /\ config' = [config EXCEPT !.interfaces = Insert(@, a.name, a)]
              /\ (n <= 5 /\ issued'[n].status # "ok")
                   => (result'.err # "" /\ config' = config)
    ]_vars

C12_Witness ==
  /\ IsAttach
  /\ Len(issued) = 7
  /\ issued[7].status = "nonzero"
  /\ result.err = "CommandFailure"
  /\ DeviceName(call.ns1.name, call.link.name) \in DOMAIN config.interfaces
  /\ DeviceName(call.ns2.name, call.link.name) \notin DOMAIN config.interfaces


\* C13: add_route with gateways that all have an address issues exactly one
\* command, and reports success whenever that command could be run, whether it
\* exited with success or not.
C13_RouteStatusIgnored ==
  (IsAddRoute /\ AllAddressed(call.route.gateway))
    => /\ Len(issued) = 1
       /\ issued[1].status \in {"ok", "nonzero"} => result.err = ""

C13_Witness ==
  /\ IsAddRoute
  /\ Len(call.route.gateway) >= 1
  /\ AllAddressed(call.route.gateway)
  /\ Len(issued) = 1
  /\ issued[1].status = "nonzero"
  /\ result.err = ""


\* C14: Link::new only checks that the name is free: it issues no command, and
\* with a fresh name it succeeds and registers the Link whatever the subnet text
\* is, valid CIDR or not. The text is first rejected by attach: an attach over a
\* Link whose subnet does not parse never succeeds, and fails with
\* AddressParseFailure once its veth-create succeeded.
C14_LinkNewUniquenessOnly ==
  [][ /\ call'.op = "Link::new"
         => /\ issued' = <<>>
            /\ call'.name \notin DOMAIN config.links
                 => /\ result'.err = ""
                    /\ config' = [config EXCEPT !.links =
                                    Insert(@, call'.name,
                                           [name |-> call'.name, subnet |-> call'.subnet])]
                    /\ result'.ret = <<config'.links[call'.name]>>
      /\ (call'.op = "Link::attach" /\ ~IpNetParses(call'.link.subnet))
         => /\ call'.link \in Handles(config.links)
            /\ result'.err # ""
            /\ AllOk(issued') => result'.err = "AddressParseFailure"
    ]_vars

C14_Witness ==
  /\ call.op = "Link::new"
  /\ ~IpNetParses(call.subnet)
  /\ result.err = ""
  /\ issued = <<>>
  /\ call.name \in DOMAIN config.links
  /\ config.links[call.name].subnet = call.subnet


\* The commands `log` hold, one after the other and all successful, the steps of
\* the Interface `e`: its move when it has a namespace, its address-set and
\* mtu-set when it records an address and an MTU, then its set-up.
Applied(e, log) ==
  \E at \in 0..Len(log) :
    /\ at + Len(InterfaceSteps(e)) <= Len(log)
    /\ Argv(SubSeq(log, at + 1, at + Len(InterfaceSteps(e)))) = InterfaceSteps(e)
    /\ AllOk(SubSeq(log, at + 1, at + Len(InterfaceSteps(e))))

\* C15: every Interface in the Registry has had its set-up command issued with
\* success, after a successful move when it has a namespace and successful
\* address-set and mtu-set for the address and MTU it records. The Registry
\* starts empty, and every operation leaves an entry of the interfaces map as it
\* was or enters an Interface whose steps it has just issued, all successful.
C15_RegisteredInterfaceApplied ==
  [][ \A nm \in DOMAIN config'.interfaces :
        (nm \in DOMAIN config.interfaces /\ config.interfaces[nm] = config'.interfaces[nm])
          \/ \E e \in {config'.interfaces[nm]} :
               /\ e.name = nm
               /\ Applied(e, issued')
    ]_vars

C15_Witness ==
  /\ IsAttach
  /\ result.err = ""
  /\ Len(issued) = 9
  /\ \E nm \in IfNames : nm \in DOMAIN config.interfaces
  /\ {result.ret[1].name, result.ret[2].name} \subseteq DOMAIN config.interfaces
  /\ result.ret[1].name # result.ret[2].name


\* C16: every Namespace in the Registry stands for an OS namespace whose create
\* and forwarding-enable commands both succeeded: the Registry starts empty and
\* an operation that enters a Namespace has just issued both, successfully. The
\* converse does not hold: a Namespace::new that failed at forwarding-enable or
\* at hash-policy leaves the OS namespace unregistered, so a retry with the same
\* name is not rejected with NameConflict and issues namespace-create again.
C16_RegisteredNamespaceCreated ==
  [][ /\ \A nm \in DOMAIN config'.namespaces :
           (nm \in DOMAIN config.namespaces /\ config.namespaces[nm] = config'.namespaces[nm])
             \/ /\ config'.namespaces[nm].name = nm
                /\ Len(issued') >= 2
                /\ issued'[1] = [argv |-> NamespaceCreateCmd(nm), status |-> "ok"]
                /\ issued'[2] = [argv |-> EnableRoutingCmd(nm), status |-> "ok"]
      /\ ( /\ IsNamespaceNew
           /\ Len(issued) >= 2
           /\ result.err # ""
           /\ call'.op = "Namespace::new"
           /\ call'.name = call.name )
           => /\ result'.err # "NameConflict"
              /\ Len(issued') >= 1
              /\ issued'[1].argv = NamespaceCreateCmd(call.name)
    ]_vars

C16_Witness ==
  /\ IsNamespaceNew
  /\ Len(issued) = 2
  /\ issued[1] = [argv |-> NamespaceCreateCmd(call.name), status |-> "ok"]
  /\ issued[2].status # "ok"
  /\ result.err # ""
  /\ call.name \notin DOMAIN config.namespaces
  /\ DOMAIN config.namespaces # {}


\* Every entry of `old` is in `new` under the same name, unchanged.
Keeps(old, new) == \A nm \in DOMAIN old : nm \in DOMAIN new /\ new[nm] = old[nm]

\* C17: the Registry only grows: no operation, successful or failing, removes
\* a name from the namespaces, links or interfaces map or replaces an entry by a
\* different entity.
C17_RegistryOnlyGrows ==
  [][ /\ Keeps(config.namespaces, config'.namespaces)
      /\ Keeps(config.links, config'.links)
      /\ Keeps(config.interfaces, config'.interfaces)
    ]_vars

C17_Witness ==
  /\ IsInterfaceNew
  /\ result.err = "CommandFailure"
  /\ DOMAIN config.namespaces = NsNames
  /\ DOMAIN config.links = LinkNames
  /\ \E n \in NsNames, l \in LinkNames : DeviceName(n, l) \in DOMAIN config.interfaces


\* C18: both Interfaces a successful attach returns carry an address, so an
\* add_route whose gateways are all taken from the pair the attach has just
\* returned does not fail with MissingAddress and issues its route-add command.
C18_AttachResultsRoutable ==
  [][ /\ (call'.op = "Link::attach" /\ result'.err = "")
         => /\ Len(result'.ret) = 2
            /\ result'.ret[1].ip # None
            /\ result'.ret[2].ip # None
      /\ ( /\ IsAttach
           /\ result.err = ""
           /\ call'.op = "Namespace::add_route"
           /\ \A i \in 1..Len(call'.route.gateway) :
                call'.route.gateway[i] \in {result.ret[1], result.ret[2]} )
         => /\ result'.err # "MissingAddress"
            /\ Len(issued') = 1
            /\ SubSeq(issued'[1].argv, 5, 7) = <<"ip", "route", "add">>
    ]_vars

C18_Witness ==
  /\ IsAddRoute
  /\ Len(call.route.gateway) = 2
  /\ \A i \in 1..2 :
       /\ call.route.gateway[i].ip # None
       /\ call.route.gateway[i].mtu = Some(LinkMtu)
       /\ \E n \in NsNames, l \in LinkNames :
            /\ call.route.gateway[i].name = DeviceName(n, l)
            /\ call.route.gateway[i].namespace = Some([name |-> n])
  /\ call.route.gateway[1] # call.route.gateway[2]
  /\ Len(issued) = 1
  /\ result.err = ""


\* The text of host k of `subnet` when the sum is taken without wrapping.
UnwrappedHost(subnet, k) ==
  <<Ipv4ToString(U32ToBeBytes(PlainAdd(U32FromBeBytes(IpNetAddr(subnet)), k))),
    ToString(IpNetPrefixLen(subnet))>>

\* C19: the host arithmetic of attach never wraps around the 32-bit range: for
\* every subnet that parses, 255.255.255.254 included, an attach whose
\* veth-create succeeded does not abort while computing the hosts, and the hosts
\* it assigns are the subnet's address plus 1 and plus 2, both above the address.
C19_HostArithmeticNeverWraps ==
  ( /\ IsAttach
    /\ IpNetParses(call.link.subnet)
    /\ issued # <<>>
    /\ issued[1].status = "ok" )
    => /\ result.err # "Panic"
       /\ result.err = ""
            => /\ result.ret[1].ip = Some(UnwrappedHost(call.link.subnet, 1))
               /\ result.ret[2].ip = Some(UnwrappedHost(call.link.subnet, 2))

====
